---- MODULE Spec2Model ----
(***************************************************************************)
(* A model of ardent.py, the script that builds Ardour under MSYS2.        *)
(*                                                                         *)
(* The script is one sequential process.  Its state is the position in     *)
(* main(), the locals of install_package_deps, the exception in flight,    *)
(* and the part of the machine the script reads and the tools it starts    *)
(* change: the process environment, the installed packages and the         *)
(* directories below deps/.  Every external command is one step: its exit  *)
(* status is chosen by the environment.                                    *)
(***************************************************************************)
EXTENDS Integers, Sequences, FiniteSets, TLC

\* Exit statuses a started command may return: 0..MaxExit.
MaxExit == 2
\* How many times the script is started one after the other (SpecRerun).
MaxRuns == 2

ExitCodes == 0..MaxExit

--------------------------------------------------------------------------
(* Data of the script *)

\* Two of the names of the list, one from each of its two parts: a
\* mingw-w64-x86_64- prefixed package and a plain MSYS2 package.
SYSTEM_DEPENDENCIES == {"mingw-w64-x86_64-gcc", "git"}

\* Packages present on every MSYS2 installation and not in the list.
BasePackages == {"pacman"}

sep == "/"
pathsep == ";"

ShellMessage == "Ardent should be executed from a MSYS2 shell. If you don't have MSYS2, you can install it from https://www.msys2.org/."

\* A fetch_libraries that applies main.cc.patch before ardour-wscript.patch
FetchList_PatchesSwapped == <<
    [url |-> <<"https:", "", "github.com", "jackaudio", "jack2">>, patches |-> <<>>],
    [url |-> <<"https:", "", "github.com", "aubio", "aubio">>, patches |-> <<"aubio_priv.h.patch">>],
    [url |-> <<"https:", "", "github.com", "radarsat1", "liblo">>, patches |-> <<>>],
    [url |-> <<"https:", "", "github.com", "x42", "libltc">>, patches |-> <<>>],
    [url |-> <<"https:", "", "github.com", "swh", "LRDF">>, patches |-> <<"lrdf_types.h.patch">>],
    [url |-> <<"https:", "", "github.com", "dajobe", "raptor">>, patches |-> <<"sort_r.h.patch">>],
    [url |-> <<"https:", "", "github.com", "lv2", "lv2kit">>, patches |-> <<"win_in_gtk2.cpp.patch">>],
    [url |-> <<"git:", "", "git.ardour.org", "ardour", "ardour">>,
     patches |-> <<"main.cc.patch", "ardour-wscript.patch", "pbd.cc.patch">>] >>

\* The calls of fetch_libraries, in order.  url is the URL split at "/";
\* patches are the patch() calls guarded by that clone() call.
FetchList == <<
    [url |-> <<"https:", "", "github.com", "jackaudio", "jack2">>, patches |-> <<>>],
    [url |-> <<"https:", "", "github.com", "aubio", "aubio">>, patches |-> <<"aubio_priv.h.patch">>],
    [url |-> <<"https:", "", "github.com", "radarsat1", "liblo">>, patches |-> <<>>],
    [url |-> <<"https:", "", "github.com", "x42", "libltc">>, patches |-> <<>>],
    [url |-> <<"https:", "", "github.com", "swh", "LRDF">>, patches |-> <<"lrdf_types.h.patch">>],
    [url |-> <<"https:", "", "github.com", "dajobe", "raptor">>, patches |-> <<"sort_r.h.patch">>],
    [url |-> <<"https:", "", "github.com", "lv2", "lv2kit">>, patches |-> <<"win_in_gtk2.cpp.patch">>],
    [url |-> <<"git:", "", "git.ardour.org", "ardour", "ardour">>,
     patches |-> <<"ardour-wscript.patch", "main.cc.patch", "pbd.cc.patch">>] >>

\* A build_libraries that builds LRDF before raptor, the order they are fetched in
BuildList_FetchOrder == <<
    [tool |-> "waf", cwd |-> "deps/jack2", args |-> <<>>, waf |-> "waf", c |-> TRUE, cxx |-> TRUE],
    [tool |-> "ac", cwd |-> "deps/liblo", args |-> <<>>, waf |-> "", c |-> FALSE, cxx |-> FALSE],
    [tool |-> "ac", cwd |-> "deps/libltc", args |-> <<>>, waf |-> "", c |-> FALSE, cxx |-> FALSE],
    [tool |-> "ac", cwd |-> "deps/LRDF", args |-> <<>>, waf |-> "", c |-> FALSE, cxx |-> FALSE],
    [tool |-> "ac", cwd |-> "deps/raptor", args |-> <<>>, waf |-> "", c |-> FALSE, cxx |-> FALSE],
    [tool |-> "meson", cwd |-> "deps/lv2kit", args |-> <<"-Dcxx=true">>, waf |-> "", c |-> FALSE, cxx |-> FALSE],
    [tool |-> "waf", cwd |-> "deps/aubio", args |-> <<"--disable-tests">>, waf |-> "../ardour/waf",
     c |-> TRUE, cxx |-> FALSE] >>

\* The calls of build_libraries, in order.
BuildList == <<
    [tool |-> "waf", cwd |-> "deps/jack2", args |-> <<>>, waf |-> "waf", c |-> TRUE, cxx |-> TRUE],
    [tool |-> "ac", cwd |-> "deps/liblo", args |-> <<>>, waf |-> "", c |-> FALSE, cxx |-> FALSE],
    [tool |-> "ac", cwd |-> "deps/libltc", args |-> <<>>, waf |-> "", c |-> FALSE, cxx |-> FALSE],
    [tool |-> "ac", cwd |-> "deps/raptor", args |-> <<>>, waf |-> "", c |-> FALSE, cxx |-> FALSE],
    [tool |-> "ac", cwd |-> "deps/LRDF", args |-> <<>>, waf |-> "", c |-> FALSE, cxx |-> FALSE],
    [tool |-> "meson", cwd |-> "deps/lv2kit", args |-> <<"-Dcxx=true">>, waf |-> "", c |-> FALSE, cxx |-> FALSE],
    [tool |-> "waf", cwd |-> "deps/aubio", args |-> <<"--disable-tests">>, waf |-> "../ardour/waf",
     c |-> TRUE, cxx |-> FALSE] >>

\* The option list and working directory of build_ardour.
ArdourBuild ==
    [tool |-> "waf", cwd |-> "deps/ardour",
     args |-> <<"--prefix=/mingw64", "--configdir=/share", "--check-c-compiler=gcc",
                "--check-cxx-compiler=g++", "--dist-target=mingw", "--no-dr-mingw",
                "--use-lld", "--optimize", "--exports-hidden", "--windows-vst">>,
     waf |-> "waf", c |-> TRUE, cxx |-> TRUE]

--------------------------------------------------------------------------
(* Pure helpers *)

Range(s) == {s[k] : k \in DOMAIN s}

RECURSIVE join(_, _)
\* str.join
join(glue, s) ==
    IF Len(s) = 0 THEN ""
    ELSE IF Len(s) = 1 THEN s[1]
    ELSE s[1] \o glue \o join(glue, Tail(s))

\* command_line of run()
CommandLine(argv) == join(" ", argv)

\* The message of the ArdentError run() raises.
FailMessage(rc, command_line) ==
    "\nFailed to run subprocess (exit code " \o ToString(rc) \o "):\n" \o command_line

\* url.split("/")[-1]
RepoName(url) == url[Len(url)]

\* target_dir + os.path.sep + url.split("/")[-1]
RepoDir(target_dir, url) == target_dir \o sep \o RepoName(url)

\* All orders in which list(s) may enumerate the set s.
Orders(s) ==
    {q \in [1..Cardinality(s) -> s] : \A a, b \in 1..Cardinality(s) : q[a] = q[b] => a = b}

CloneArgv(url) == <<"git", "clone", "--recurse-submodules", join("/", url)>>

PatchArgv(patch_name) == <<"patch", "-i", "patches/" \o patch_name, "-p0">>

WafArgv(b) ==
    <<"python3", b.waf, "configure", "build", "install", "--prefix=/mingw64">>
    \o (IF b.c THEN <<"--check-c-compiler=gcc">> ELSE <<>>)
    \o (IF b.cxx THEN <<"--check-cxx-compiler=g++">> ELSE <<>>)
    \o b.args

MesonBuildDir(cwd) == cwd \o sep \o "build"

--------------------------------------------------------------------------
(* State *)

VARIABLES
    environ,        \* os.environ: a function from the names that are set to their values
    installed,      \* the packages pacman has installed
    dirs,           \* the directories that exist, as paths relative to the script's directory
    applied,        \* repository directory -> the patches applied to it with exit status 0
    pc, i, j,       \* position in main(): the call, its index in the list, the step in it
    packages,       \* install_package_deps: packages
    to_install,     \* install_package_deps: to_install
    cloned,         \* repository directory -> what clone() returned ("none" before the call)
    exc,            \* the exception in flight: its type and message
    reported,       \* the messages the top level printed in colour 91
    log,            \* the commands subprocess.run started in this run, with their exit status
    existedAtCall,  \* repository directory -> whether it existed when clone() was called
    buildAtCall,    \* whether the meson build directory existed when meson() was called
    runs,           \* the number of the current run
    firstRun        \* the log and the outcome of the first run, once it has ended

fsVars == <<installed, dirs, applied>>
ctlVars == <<pc, i, j>>
localVars == <<packages, to_install>>
ghostVars == <<existedAtCall, buildAtCall>>
runVars == <<runs, firstRun>>

vars == <<environ, installed, dirs, applied, pc, i, j, packages, to_install, cloned,
          exc, reported, log, existedAtCall, buildAtCall, runs, firstRun>>

RepoDirs == {RepoDir("deps", FetchList[k].url) : k \in DOMAIN FetchList}

lv2kitBuild == MesonBuildDir("deps/lv2kit")

NoException == [type |-> "none", message |-> ""]

EmptyEnv == [k \in {} |-> ""]

\* The environments the script is started in: MSYSTEM unset, right or wrong,
\* PKG_CONFIG_PATH unset or set.
Environs ==
    {m @@ p : m \in {EmptyEnv, "MSYSTEM" :> "MINGW64", "MSYSTEM" :> "MSYS"},
              p \in {EmptyEnv, "PKG_CONFIG_PATH" :> "/mingw64/lib/pkgconfig"}}

\* Directory trees: a repository directory needs deps/, a build directory its repository.
DirTrees ==
    {D \in SUBSET ({"deps", lv2kitBuild} \cup RepoDirs) :
        /\ (D # {} => "deps" \in D)
        /\ (lv2kitBuild \in D => "deps/lv2kit" \in D)}

StartOfRun ==
    /\ pc = "check_shell" /\ i = 0 /\ j = 0
    /\ packages = {} /\ to_install = {}
    /\ cloned = [d \in RepoDirs |-> "none"]
    /\ exc = NoException
    /\ reported = <<>>
    /\ log = <<>>
    /\ existedAtCall = [d \in RepoDirs |-> "uncalled"]
    /\ buildAtCall = "uncalled"

\* The script is started on any machine.
Init ==
    /\ environ \in Environs
    /\ installed \in {BasePackages \cup S : S \in SUBSET SYSTEM_DEPENDENCIES}
    /\ dirs \in DirTrees
    /\ applied = [d \in RepoDirs |-> <<>>]
    /\ StartOfRun
    /\ runs = 1
    /\ firstRun = [log |-> <<>>, outcome |-> "none"]

\* The script is started on a machine where nothing was fetched yet.
InitFresh ==
    /\ Init
    /\ dirs \subseteq {"deps"}

--------------------------------------------------------------------------
(* The parts of the code that decide *)

\* os.getenv(name), where the variable is set
getenv(name) == environ[name]
isset(name) == name \in DOMAIN environ

\* A check that lets an unset MSYSTEM pass: os.getenv("MSYSTEM", "MINGW64") != "MINGW64"
WrongShell_UnsetPasses == isset("MSYSTEM") /\ getenv("MSYSTEM") # "MINGW64"

\* check_shell: os.getenv("MSYSTEM") != "MINGW64"
WrongShell == ~(isset("MSYSTEM") /\ getenv("MSYSTEM") = "MINGW64")

\* A test that takes only exit status 1 for a failure: out.returncode == 1
RunFails_OnlyOne(rc) == rc = 1

\* run: out.returncode != 0
RunFails(rc) == rc # 0

\* os.path.isdir
isdir(path) == path \in dirs

\* A clone() that never looks at the directory
CloneNeeded_Always(target_dir, url) == TRUE

\* clone: not os.path.isdir(target_dir + os.path.sep + url.split("/")[-1])
CloneNeeded(target_dir, url) == ~isdir(RepoDir(target_dir, url))

\* A meson() that sets up when the build directory exists: os.path.isdir(build)
SetupNeeded_Inverted(build) == isdir(build)

\* A meson() that always sets up
SetupNeeded_Always(build) == TRUE

\* meson: not os.path.isdir(build)
SetupNeeded(build) == ~isdir(build)

\* An installer that asks for the whole list
ToInstall_Everything(pkgs) == SYSTEM_DEPENDENCIES

\* install_package_deps: SYSTEM_DEPENDENCIES - packages
ToInstall(pkgs) == SYSTEM_DEPENDENCIES \ pkgs

\* What "pacman -Qq" writes split at "\n": one name a line and the empty
\* string after the last newline.
QueryLines(inst) ==
    LET names == CHOOSE q \in Orders(inst) : TRUE
    IN  names \o <<"">>

\* subprocess.run starts a command only in a working directory that exists.
CanStart(cwd) == cwd = "." \/ isdir(cwd)

Cmd(argv, cwd, env, rc) == [argv |-> argv, cwd |-> cwd, env |-> env, rc |-> rc]

NoEnv == {}

--------------------------------------------------------------------------
(* Steps *)

\* raise ArdentError(message): nothing below the top level catches it.
Raise(message) ==
    /\ exc' = [type |-> "ArdentError", message |-> message]
    /\ pc' = "raised"
    /\ UNCHANGED <<i, j>>

\* An exception that is no ArdentError: the top level does not catch it.
Crash(type) ==
    /\ exc' = [type |-> type, message |-> ""]
    /\ pc' = "crashed"
    /\ UNCHANGED <<i, j>>

Goto(npc, ni, nj) ==
    /\ pc' = npc /\ i' = ni /\ j' = nj
    /\ exc' = exc

\* run() of a command whose effects the script never reads.
Step(argv, cwd, env, npc, ni, nj) ==
    IF ~CanStart(cwd)
    THEN Crash("FileNotFoundError") /\ log' = log
    ELSE \E rc \in ExitCodes :
            /\ log' = Append(log, Cmd(argv, cwd, env, rc))
            /\ IF RunFails(rc)
               THEN Raise(FailMessage(rc, CommandLine(argv)))
               ELSE Goto(npc, ni, nj)

check_shell ==
    /\ pc = "check_shell"
    /\ IF WrongShell
       THEN Raise(ShellMessage)
       ELSE Goto("install_package_deps", 0, 0)
    /\ UNCHANGED <<environ, fsVars, localVars, cloned, reported, log, ghostVars, runVars>>

\* install_package_deps up to the test of to_install
pacman_Qq ==
    /\ pc = "install_package_deps"
    /\ \E rc \in ExitCodes :
        LET argv == <<"pacman", "-Qq">> IN
        /\ log' = Append(log, Cmd(argv, ".", NoEnv, rc))
        /\ IF RunFails(rc)
           THEN Raise(FailMessage(rc, CommandLine(argv))) /\ UNCHANGED localVars
           ELSE /\ packages' = Range(QueryLines(installed))
                /\ to_install' = ToInstall(packages')
                /\ IF to_install' # {}
                   THEN Goto("pacman_S", 0, 0)
                   ELSE Goto("fetch_libraries", 1, 0)
    /\ UNCHANGED <<environ, fsVars, cloned, reported, ghostVars, runVars>>

\* install_package_deps: the install of to_install.  pacman installs all the
\* packages it is given or, when it fails, none.
pacman_S ==
    /\ pc = "pacman_S"
    /\ \E rc \in ExitCodes, names \in Orders(to_install) :
        LET argv == <<"pacman", "-S", "--noconfirm", "--needed">> \o names IN
        /\ log' = Append(log, Cmd(argv, ".", NoEnv, rc))
        /\ IF RunFails(rc)
           THEN Raise(FailMessage(rc, CommandLine(argv))) /\ installed' = installed
           ELSE Goto("fetch_libraries", 1, 0) /\ installed' = installed \cup to_install
    /\ UNCHANGED <<environ, dirs, applied, localVars, cloned, reported, ghostVars, runVars>>

\* fetch_libraries after the calls for FetchList[k] are done
AfterFetch(k) ==
    IF k < Len(FetchList)
    THEN Goto("fetch_libraries", k + 1, 0)
    ELSE Goto("build_libraries", 1, 1)

\* clone(FetchList[i].url, target_dir="deps") and the test of what it returns.
\* A git clone that fails may leave the directory behind.
clone ==
    /\ pc = "fetch_libraries" /\ j = 0
    /\ LET f == FetchList[i]
           d == RepoDir("deps", f.url)
           argv == CloneArgv(f.url)
       IN  /\ existedAtCall' = [existedAtCall EXCEPT ![d] = IF isdir(d) THEN "present" ELSE "absent"]
           /\ IF ~CloneNeeded("deps", f.url)
              THEN /\ cloned' = [cloned EXCEPT ![d] = "False"]
                   /\ AfterFetch(i)
                   /\ UNCHANGED <<log, dirs>>
              ELSE IF ~CanStart("deps")
              THEN Crash("FileNotFoundError") /\ UNCHANGED <<log, dirs, cloned>>
              ELSE \E rc \in ExitCodes :
                      /\ log' = Append(log, Cmd(argv, "deps", NoEnv, rc))
                      /\ IF RunFails(rc)
                         THEN /\ Raise(FailMessage(rc, CommandLine(argv)))
                              /\ \E left \in BOOLEAN : dirs' = IF left THEN dirs \cup {d} ELSE dirs
                              /\ cloned' = cloned
                         ELSE /\ dirs' = dirs \cup {d}
                              /\ cloned' = [cloned EXCEPT ![d] = "True"]
                              /\ IF Len(f.patches) > 0
                                 THEN Goto("fetch_libraries", i, 1)
                                 ELSE AfterFetch(i)
    /\ UNCHANGED <<environ, installed, applied, localVars, reported, buildAtCall, runVars>>

\* patch(FetchList[i].patches[j])
patch ==
    /\ pc = "fetch_libraries" /\ j >= 1
    /\ LET f == FetchList[i]
           d == RepoDir("deps", f.url)
           argv == PatchArgv(f.patches[j])
       IN  \E rc \in ExitCodes :
              /\ log' = Append(log, Cmd(argv, ".", NoEnv, rc))
              /\ IF RunFails(rc)
                 THEN Raise(FailMessage(rc, CommandLine(argv))) /\ applied' = applied
                 ELSE /\ applied' = [applied EXCEPT ![d] = Append(@, f.patches[j])]
                      /\ IF j < Len(f.patches)
                         THEN Goto("fetch_libraries", i, j + 1)
                         ELSE AfterFetch(i)
    /\ UNCHANGED <<environ, installed, dirs, localVars, cloned, reported, ghostVars, runVars>>

\* build_libraries after the call for BuildList[k] is done
AfterBuild(k) ==
    IF k < Len(BuildList) THEN <<"build_libraries", k + 1, 1>> ELSE <<"build_ardour", 0, 0>>

\* waf(...) of build_libraries
waf ==
    /\ pc = "build_libraries" /\ BuildList[i].tool = "waf"
    /\ LET b == BuildList[i]
           n == AfterBuild(i)
       IN  Step(WafArgv(b), b.cwd, NoEnv, n[1], n[2], n[3])
    /\ UNCHANGED <<environ, fsVars, localVars, cloned, reported, ghostVars, runVars>>

\* ac(): sh ./autogen.sh
ac_autogen ==
    /\ pc = "build_libraries" /\ BuildList[i].tool = "ac" /\ j = 1
    /\ Step(<<"sh", "./autogen.sh">>, BuildList[i].cwd,
            {<<"ACLOCAL_PATH", "/usr/share/aclocal">>}, "build_libraries", i, 2)
    /\ UNCHANGED <<environ, fsVars, localVars, cloned, reported, ghostVars, runVars>>

\* ac(): make install
ac_make ==
    /\ pc = "build_libraries" /\ BuildList[i].tool = "ac" /\ j = 2
    /\ LET n == AfterBuild(i)
       IN  Step(<<"make", "install">>, BuildList[i].cwd, NoEnv, n[1], n[2], n[3])
    /\ UNCHANGED <<environ, fsVars, localVars, cloned, reported, ghostVars, runVars>>

\* meson(): the test of the build directory and meson setup.  A setup that
\* fails may leave the build directory behind.
meson_setup ==
    /\ pc = "build_libraries" /\ BuildList[i].tool = "meson" /\ j = 1
    /\ LET b == BuildList[i]
           build == MesonBuildDir(b.cwd)
           argv == <<"meson", "setup", "build">>
       IN  /\ buildAtCall' = IF isdir(build) THEN "present" ELSE "absent"
           /\ IF ~SetupNeeded(build)
              THEN Goto("build_libraries", i, 2) /\ UNCHANGED <<log, dirs>>
              ELSE IF ~CanStart(b.cwd)
              THEN Crash("FileNotFoundError") /\ UNCHANGED <<log, dirs>>
              ELSE \E rc \in ExitCodes :
                      /\ log' = Append(log, Cmd(argv, b.cwd, NoEnv, rc))
                      /\ IF RunFails(rc)
                         THEN /\ Raise(FailMessage(rc, CommandLine(argv)))
                              /\ \E left \in BOOLEAN : dirs' = IF left THEN dirs \cup {build} ELSE dirs
                         ELSE /\ Goto("build_libraries", i, 2)
                              /\ dirs' = dirs \cup {build}
    /\ UNCHANGED <<environ, installed, applied, localVars, cloned, reported, existedAtCall, runVars>>

\* meson(): meson configure with the caller's options
meson_configure ==
    /\ pc = "build_libraries" /\ BuildList[i].tool = "meson" /\ j = 2
    /\ Step(<<"meson", "configure">> \o BuildList[i].args, MesonBuildDir(BuildList[i].cwd),
            NoEnv, "build_libraries", i, 3)
    /\ UNCHANGED <<environ, fsVars, localVars, cloned, reported, ghostVars, runVars>>

\* meson(): meson compile
meson_compile ==
    /\ pc = "build_libraries" /\ BuildList[i].tool = "meson" /\ j = 3
    /\ Step(<<"meson", "compile">>, MesonBuildDir(BuildList[i].cwd),
            NoEnv, "build_libraries", i, 4)
    /\ UNCHANGED <<environ, fsVars, localVars, cloned, reported, ghostVars, runVars>>

\* meson(): meson install
meson_install ==
    /\ pc = "build_libraries" /\ BuildList[i].tool = "meson" /\ j = 4
    /\ LET n == AfterBuild(i)
       IN  Step(<<"meson", "install">>, MesonBuildDir(BuildList[i].cwd), NoEnv, n[1], n[2], n[3])
    /\ UNCHANGED <<environ, fsVars, localVars, cloned, reported, ghostVars, runVars>>

\* build_ardour: os.getenv("PKG_CONFIG_PATH") + ... is a TypeError when the
\* variable is unset, raised before waf() is called.
build_ardour ==
    /\ pc = "build_ardour"
    /\ IF ~isset("PKG_CONFIG_PATH")
       THEN Crash("TypeError") /\ log' = log
       ELSE Step(WafArgv(ArdourBuild), ArdourBuild.cwd,
                 {<<"PKG_CONFIG_PATH",
                    getenv("PKG_CONFIG_PATH") \o pathsep \o "C:\\mingw64\\lib\\pkgconfig">>},
                 "done", 0, 0)
    /\ UNCHANGED <<environ, fsVars, localVars, cloned, reported, ghostVars, runVars>>

\* __main__: except ArdentError as e: status(e.message, color="91"); raise
report ==
    /\ pc = "raised"
    /\ reported' = Append(reported, exc.message)
    /\ pc' = "exit_error"
    /\ UNCHANGED <<environ, fsVars, i, j, localVars, cloned, exc, log, ghostVars, runVars>>

Ended == pc \in {"done", "exit_error", "crashed"}

\* The script is started again on the machine the last run left behind.
rerun ==
    /\ Ended
    /\ runs < MaxRuns
    /\ runs' = runs + 1
    /\ firstRun' = IF runs = 1 THEN [log |-> log, outcome |-> pc] ELSE firstRun
    /\ pc' = "check_shell" /\ i' = 0 /\ j' = 0
    /\ packages' = {} /\ to_install' = {}
    /\ cloned' = [d \in RepoDirs |-> "none"]
    /\ exc' = NoException
    /\ reported' = <<>>
    /\ log' = <<>>
    /\ existedAtCall' = [d \in RepoDirs |-> "uncalled"]
    /\ buildAtCall' = "uncalled"
    /\ UNCHANGED <<environ, fsVars>>

\* main() and the top level of the script
Next ==
    \/ check_shell
    \/ pacman_Qq
    \/ pacman_S
    \/ clone
    \/ patch
    \/ waf
    \/ ac_autogen
    \/ ac_make
    \/ meson_setup
    \/ meson_configure
    \/ meson_compile
    \/ meson_install
    \/ build_ardour
    \/ report

NextRerun == Next \/ rerun

\* One run of the script on any machine.
Spec == Init /\ [][Next]_vars

\* Runs of the script one after the other, the first on a machine where
\* nothing was fetched.
SpecRerun == InitFresh /\ [][NextRerun]_vars

--------------------------------------------------------------------------
(* What the commands of a log are *)

IsQuery(e) == e.argv[1] = "pacman" /\ e.argv[2] = "-Qq"
IsInstall(e) == e.argv[1] = "pacman" /\ e.argv[2] = "-S"
IsClone(e) == e.argv[1] = "git" /\ e.argv[2] = "clone"
IsPatch(e) == e.argv[1] = "patch"
IsBuild(e) == e.argv[1] \in {"python3", "sh", "make", "meson"}
IsMeson(e) == e.argv[1] = "meson"

\* The packages an install command names: what follows its four fixed words.
InstallNames(e) == SubSeq(e.argv, 5, Len(e.argv))

Indices(l, P(_)) == {k \in DOMAIN l : P(l[k])}

ShellIsRight == "MSYSTEM" \in DOMAIN environ /\ environ["MSYSTEM"] = "MINGW64"

--------------------------------------------------------------------------
(* C1 *)

\* C1: when MSYSTEM is not "MINGW64" (unset included) no external command is
\* ever started, the only way the run goes on is the ArdentError of
\* check_shell, and the run ends with exactly that one error reported.
C1_WrongShellNoCommand ==
    ~ShellIsRight =>
        /\ log = <<>>
        /\ pc \in {"check_shell", "raised", "exit_error"}
        /\ (pc # "check_shell" => exc = [type |-> "ArdentError", message |-> ShellMessage])
        /\ (pc = "exit_error" => reported = <<ShellMessage>>)
        /\ (pc # "exit_error" => reported = <<>>)

\* A run with MSYSTEM unset has ended.
C1_Witness ==
    /\ "MSYSTEM" \notin DOMAIN environ
    /\ pc = "exit_error"

--------------------------------------------------------------------------
(* C2 *)

\* C2: a command that returned a non-zero exit status is the last command of
\* the run, the run is in the failed state, and the ArdentError raised (and,
\* once the top level has handled it, the message reported) holds that exit
\* status and the command line of that command.
C2_FailureStopsRun ==
    \A k \in DOMAIN log :
        log[k].rc # 0 =>
            /\ k = Len(log)
            /\ pc \in {"raised", "exit_error"}
            /\ exc = [type |-> "ArdentError",
                      message |-> FailMessage(log[k].rc, join(" ", log[k].argv))]
            /\ (pc = "exit_error" => reported = <<exc.message>>)

\* meson compile has returned 2 and the top level has reported it.
C2_Witness ==
    /\ pc = "exit_error"
    /\ Len(log) > 0
    /\ log[Len(log)].rc = 2
    /\ log[Len(log)].argv = <<"meson", "compile">>

--------------------------------------------------------------------------
(* C3 *)

QuerySucceeded == \E k \in DOMAIN log : IsQuery(log[k]) /\ log[k].rc = 0

\* C3: at most one install command is started; none before the query has
\* answered; when required - installed is empty none at all; when it is not
\* empty, one is started once install_package_deps is over, and it names
\* each package of required - installed once and no other package.
C3_InstallsTheDifference ==
    LET installs == Indices(log, IsInstall)
        missing == SYSTEM_DEPENDENCIES \ packages
    IN  /\ Cardinality(installs) <= 1
        /\ (~QuerySucceeded => installs = {})
        /\ (QuerySucceeded /\ missing = {} => installs = {})
        /\ (QuerySucceeded /\ missing # {} /\ pc \notin {"install_package_deps", "pacman_S"}
                => installs # {})
        /\ \A k \in installs :
              /\ Range(InstallNames(log[k])) = missing
              /\ Len(InstallNames(log[k])) = Cardinality(missing)
              /\ Range(InstallNames(log[k])) \cap packages = {}

\* One required package was installed and the other was not: the install
\* command names the other one only.
C3_Witness ==
    /\ "mingw-w64-x86_64-gcc" \in packages
    /\ \E k \in DOMAIN log :
          IsInstall(log[k]) /\ log[k].rc = 0 /\ InstallNames(log[k]) = <<"git">>

--------------------------------------------------------------------------
(* C4 *)

\* Repository directory -> the git clone command and the patch commands of
\* fetch_libraries that belong to it.
FetchCommands ==
    [d \in RepoDirs |->
        UNION {{CloneArgv(FetchList[k].url)}
               \cup {PatchArgv(FetchList[k].patches[m]) : m \in DOMAIN FetchList[k].patches} :
               k \in {k \in DOMAIN FetchList : RepoDir("deps", FetchList[k].url) = d}}]

\* C4: for a dependency whose directory existed when clone() was called for
\* it, clone() returned False, and the run started neither a git clone of it
\* nor one of its patches.
C4_PresentIsLeftAlone ==
    \A d \in RepoDirs :
        existedAtCall[d] = "present" =>
            /\ cloned[d] = "False"
            /\ \A k \in DOMAIN log : log[k].argv \notin FetchCommands[d]

\* ardour was there and left alone, aubio was not there and was cloned.
C4_Witness ==
    /\ existedAtCall["deps/ardour"] = "present"
    /\ cloned["deps/aubio"] = "True"
    /\ pc = "build_libraries"

--------------------------------------------------------------------------
(* C5 *)

\* The dependencies as the specification lists them: the directory, the git
\* clone command and the patches, in the order they are to be applied.
Documented == <<
    [dir |-> "deps/jack2", url |-> "https://github.com/jackaudio/jack2", patches |-> <<>>],
    [dir |-> "deps/aubio", url |-> "https://github.com/aubio/aubio", patches |-> <<"aubio_priv.h.patch">>],
    [dir |-> "deps/liblo", url |-> "https://github.com/radarsat1/liblo", patches |-> <<>>],
    [dir |-> "deps/libltc", url |-> "https://github.com/x42/libltc", patches |-> <<>>],
    [dir |-> "deps/LRDF", url |-> "https://github.com/swh/LRDF", patches |-> <<"lrdf_types.h.patch">>],
    [dir |-> "deps/raptor", url |-> "https://github.com/dajobe/raptor", patches |-> <<"sort_r.h.patch">>],
    [dir |-> "deps/lv2kit", url |-> "https://github.com/lv2/lv2kit", patches |-> <<"win_in_gtk2.cpp.patch">>],
    [dir |-> "deps/ardour", url |-> "git://git.ardour.org/ardour/ardour",
     patches |-> <<"ardour-wscript.patch", "main.cc.patch", "pbd.cc.patch">>] >>

GitClone(url) == <<"git", "clone", "--recurse-submodules", url>>
PatchCommand(name) == <<"patch", "-i", "patches/" \o name, "-p0">>

\* git clone command -> the documented dependency it clones
DocumentedByClone ==
    [c \in {GitClone(Documented[n].url) : n \in DOMAIN Documented} |->
        CHOOSE r \in Range(Documented) : GitClone(r.url) = c]

\* documented directory -> its git clone command
CloneCommand ==
    [d \in {Documented[n].dir : n \in DOMAIN Documented} |->
        GitClone((CHOOSE r \in Range(Documented) : r.dir = d).url)]

\* documented directory -> how many patches it has
PatchCount ==
    [d \in {Documented[n].dir : n \in DOMAIN Documented} |->
        Len((CHOOSE r \in Range(Documented) : r.dir = d).patches)]

\* fetch_libraries is at the clone or at a patch of directory d.
FetchingNow(d) == pc = "fetch_libraries" /\ RepoDir("deps", FetchList[i].url) = d

\* The patches of r were started right after log[k], in order, and returned 0.
PatchedAfter(k, r) ==
    /\ k + Len(r.patches) <= Len(log)
    /\ \A m \in 1..Len(r.patches) :
          log[k + m].argv = PatchCommand(r.patches[m]) /\ log[k + m].rc = 0

\* C5 as stated: at the end of a run, with deps/ there, every dependency that
\* was absent from it when fetch_libraries reached it was cloned exactly once and all its
\* patches were applied exactly once, in the documented order, right after
\* its clone.
C5_Original ==
    (Ended /\ isdir("deps")) =>
        \A d \in DOMAIN CloneCommand :
            existedAtCall[d] = "absent" =>
                LET cl == {k \in DOMAIN log : log[k].argv = CloneCommand[d]}
                IN  /\ Cardinality(cl) = 1
                    /\ \A k \in cl : PatchedAfter(k, DocumentedByClone[CloneCommand[d]])

\* C5 as amended: with deps/ there, every dependency that was absent from it
\* when fetch_libraries reached it has exactly one git clone started; what is
\* started right after that clone are its documented patches, in the
\* documented order, each only after the command before it returned 0; no
\* patch command is started anywhere else, so none is started twice; and
\* when the clone and each patch returned 0, all the patches have been
\* applied once fetch_libraries has gone on to the next dependency.
C5_FreshCloneThenPatches ==
    LET clones == Indices(log, IsClone)
        patchesAfter ==
            UNION {{k + m : m \in 1..Len(DocumentedByClone[log[k].argv].patches)} : k \in clones}
    IN  /\ \A d \in DOMAIN CloneCommand :
              (existedAtCall[d] = "absent" /\ isdir("deps")) =>
                  \E k \in clones : log[k].argv = CloneCommand[d]
        /\ Cardinality({log[k].argv : k \in clones}) = Cardinality(clones)
        /\ \A k \in clones :
              /\ log[k].argv \in DOMAIN DocumentedByClone
              /\ LET r == DocumentedByClone[log[k].argv]
                 IN  /\ existedAtCall[r.dir] = "absent"
                     /\ \A m \in 1..Len(r.patches) :
                           k + m <= Len(log) =>
                               /\ log[k + m].argv = PatchCommand(r.patches[m])
                               /\ log[k + m - 1].rc = 0
                     /\ ((\A m \in 0..Len(r.patches) : k + m <= Len(log) => log[k + m].rc = 0)
                            /\ ~FetchingNow(r.dir))
                         => /\ PatchedAfter(k, r)
                            /\ applied[r.dir] = r.patches
        /\ \A k \in DOMAIN log : IsPatch(log[k]) => k \in patchesAfter

\* A whole run where jack2 was there, and ardour was not there and got its
\* three patches.
C5_Witness ==
    /\ pc = "done"
    /\ existedAtCall["deps/jack2"] = "present"
    /\ existedAtCall["deps/ardour"] = "absent"
    /\ applied["deps/ardour"] = <<"ardour-wscript.patch", "main.cc.patch", "pbd.cc.patch">>

--------------------------------------------------------------------------
(* C6 *)

\* The order of the library builds as the specification gives it, by working
\* directory; meson works in the build directory of lv2kit.
LibraryOf ==
    [c \in {"deps/jack2", "deps/liblo", "deps/libltc", "deps/raptor", "deps/LRDF",
            "deps/lv2kit", "deps/lv2kit/build", "deps/aubio"} |->
        CASE c = "deps/jack2" -> 1
          [] c = "deps/liblo" -> 2
          [] c = "deps/libltc" -> 3
          [] c = "deps/raptor" -> 4
          [] c = "deps/LRDF" -> 5
          [] c \in {"deps/lv2kit", "deps/lv2kit/build"} -> 6
          [] c = "deps/aubio" -> 7]

\* guard = 0, packages = 1, fetch = 2, library builds = 3, application build = 4
Phase(e) ==
    IF e.argv[1] = "pacman" THEN 1
    ELSE IF e.argv[1] \in {"git", "patch"} THEN 2
    ELSE IF e.cwd = "deps/ardour" THEN 4
    ELSE 3

\* The command that ends the build of a library or of the application.
EndsBuild(e) ==
    \/ e.argv[1] = "python3"
    \/ e.argv = <<"make", "install">>
    \/ e.argv = <<"meson", "install">>

\* C6: no command before the guard has passed; the commands of a run are in
\* the order packages, fetch, library builds, application build; a clone or
\* patch is started only after the query and, where one is needed, the
\* install have returned 0; a build is started only after every dependency
\* has been handled by fetch_libraries and every clone and patch returned 0;
\* the libraries are built in the order jack2, liblo, libltc, raptor, LRDF,
\* lv2kit, aubio, each after the build before it has ended with 0; the
\* build of ardour comes after the build of aubio has ended with 0 and
\* nothing is started after it.
C6_PhaseOrder ==
    /\ (log # <<>> => ShellIsRight)
    /\ \A k \in 1..(Len(log) - 1) :
          LET a == log[k]
              b == log[k + 1]
          IN  /\ Phase(a) <= Phase(b)
              /\ (Phase(a) < Phase(b) => a.rc = 0)
              /\ (Phase(a) = 1 /\ Phase(b) >= 2 =>
                    /\ IsQuery(log[1]) /\ log[1].rc = 0
                    /\ (SYSTEM_DEPENDENCIES \ packages # {} => IsInstall(a)))
              /\ (Phase(a) <= 2 /\ Phase(b) >= 3 =>
                    /\ \A d \in RepoDirs : cloned[d] # "none"
                    /\ \A d \in DOMAIN PatchCount :
                          cloned[d] = "True" => Len(applied[d]) >= PatchCount[d]
                    /\ Phase(b) = 3 /\ LibraryOf[b.cwd] = 1)
              /\ (Phase(a) = 3 /\ Phase(b) = 3 =>
                    \/ LibraryOf[a.cwd] = LibraryOf[b.cwd]
                    \/ LibraryOf[b.cwd] = LibraryOf[a.cwd] + 1 /\ EndsBuild(a) /\ a.rc = 0)
              /\ (Phase(b) = 4 =>
                    /\ Phase(a) = 3 /\ LibraryOf[a.cwd] = 7 /\ EndsBuild(a) /\ a.rc = 0
                    /\ k + 1 = Len(log))
    /\ (log # <<>> => Phase(log[1]) = 1)

\* A whole run that installed packages, cloned and patched ardour and built
\* everything.
C6_Witness ==
    /\ pc = "done"
    /\ IsInstall(log[2])
    /\ cloned["deps/ardour"] = "True"
    /\ cloned["deps/raptor"] = "False"

--------------------------------------------------------------------------
(* C7 *)

IsSetup(e) == e.argv = <<"meson", "setup", "build">>
NotSetup(e) == ~IsSetup(e)

\* The build-tool commands of a log, in order.
Builds(l) == SelectSeq(l, IsBuild)

\* The first run was the scenario of the specification: nothing fetched, no
\* required package installed, every command returned 0.
FirstRunWasScenario ==
    /\ firstRun.outcome = "done"
    /\ Len(firstRun.log) >= 2
    /\ IsInstall(firstRun.log[2])
    /\ Range(InstallNames(firstRun.log[2])) = SYSTEM_DEPENDENCIES

\* C7 as stated: a second run after the scenario, once it is done, has
\* started no clone, no patch and no install, and has started again every
\* build-tool command of the first run.
C7_Original ==
    (runs = 2 /\ FirstRunWasScenario /\ pc = "done") =>
        /\ \A k \in DOMAIN log : ~IsInstall(log[k]) /\ ~IsClone(log[k]) /\ ~IsPatch(log[k])
        /\ Builds(log) = Builds(firstRun.log)

\* C7 as amended: a run after a first run that started with nothing fetched
\* and did everything starts no clone, no patch and no install; once it is
\* done it has started again, in the same order, every build-tool command of
\* the first run but one: meson setup, which the first run started and
\* which is skipped because deps/lv2kit/build now exists.
C7_RerunRebuildsWithoutSetup ==
    (runs >= 2 /\ firstRun.outcome = "done") =>
        /\ \A k \in DOMAIN log : ~IsInstall(log[k]) /\ ~IsClone(log[k]) /\ ~IsPatch(log[k])
        /\ (pc = "done" =>
              /\ Builds(log) = SelectSeq(Builds(firstRun.log), NotSetup)
              /\ \E k \in DOMAIN firstRun.log : IsSetup(firstRun.log[k]))

\* The second run after the scenario is done.
C7_Witness ==
    /\ runs = 2
    /\ FirstRunWasScenario
    /\ pc = "done"
    /\ Len(log) > 10

--------------------------------------------------------------------------
(* C8 *)

\* The steps of meson(), given whether the build directory was there.
MesonSteps(atCall) ==
    (IF atCall = "absent" THEN <<"setup">> ELSE <<>>) \o <<"configure", "compile", "install">>

\* C8: meson setup is started exactly when the build directory did not
\* exist at the call of meson(), in the directory of the dependency and
\* before the other steps; the meson commands of a run are the first so many
\* of (setup,) configure, compile, install, in that order, each after the one
\* before it returned 0, configure with the caller's options and all three
\* in the build directory; and when none of them failed all of them were
\* started before the next build.
C8_MesonOrder ==
    LET ms == SelectSeq(log, IsMeson)
        steps == MesonSteps(buildAtCall)
    IN  /\ (buildAtCall = "uncalled" => ms = <<>>)
        /\ (buildAtCall = "absent" <=> \E k \in DOMAIN ms : IsSetup(ms[k]))
        /\ Len(ms) <= Len(steps)
        /\ \A k \in DOMAIN ms :
              /\ ms[k].argv[2] = steps[k]
              /\ (k > 1 => ms[k - 1].rc = 0)
              /\ (steps[k] = "setup" => ms[k].argv = <<"meson", "setup", "build">> /\ ms[k].cwd = "deps/lv2kit")
              /\ (steps[k] = "configure" => ms[k].argv = <<"meson", "configure", "-Dcxx=true">>)
              /\ (steps[k] # "setup" => Len(ms[k].argv) >= 2 /\ ms[k].cwd = "deps/lv2kit/build")
        /\ ((pc = "done" \/ \E k \in DOMAIN log : log[k].cwd = "deps/aubio") =>
                Len(ms) = Len(steps) /\ ms[Len(ms)].rc = 0)

\* A whole run in which the build directory was there and setup was skipped.
C8_Witness ==
    /\ buildAtCall = "present"
    /\ pc = "done"
    /\ \E k \in DOMAIN log : log[k].argv = <<"meson", "install">>

--------------------------------------------------------------------------
(* C9 *)

\* C9: with MSYSTEM right, a run that has ended has either succeeded, after
\* the build of ardour, or ended with an ArdentError that was reported at the
\* top level and came from a command that returned a non-zero exit status.
C9_TwoOutcomes ==
    (ShellIsRight /\ Ended) =>
        \/ /\ pc = "done"
           /\ log # <<>> /\ log[Len(log)].cwd = "deps/ardour" /\ log[Len(log)].rc = 0
        \/ /\ pc = "exit_error"
           /\ exc.type = "ArdentError"
           /\ reported = <<exc.message>>
           /\ log # <<>> /\ log[Len(log)].rc # 0

--------------------------------------------------------------------------
(* C10 *)

\* working directory of a build -> the directory of the dependency built
\* there, for the dependencies that have patches
PatchedRepoOf ==
    [c \in {"deps/aubio", "deps/LRDF", "deps/raptor", "deps/lv2kit", "deps/lv2kit/build",
            "deps/ardour"} |->
        IF c = "deps/lv2kit/build" THEN "deps/lv2kit" ELSE c]

\* documented directory -> its patches
DocumentedPatches ==
    [d \in {Documented[n].dir : n \in DOMAIN Documented} |->
        (CHOOSE r \in Range(Documented) : r.dir = d).patches]

\* C10: over runs that start with nothing fetched, whenever a build command
\* of aubio, LRDF, raptor, lv2kit or ardour has been started, each patch of
\* that dependency has been applied with exit status 0 exactly once.
C10_BuiltOnlyPatched ==
    \A k \in DOMAIN log :
        (IsBuild(log[k]) /\ log[k].cwd \in DOMAIN PatchedRepoOf) =>
            applied[PatchedRepoOf[log[k].cwd]] = DocumentedPatches[PatchedRepoOf[log[k].cwd]]

====
